---- MODULE Spec2Model ----
(***************************************************************************)
(* Model of the file-discovery and content-search core:                    *)
(*   - FileCacheService (packages/core/src/services/fileCacheService.ts)   *)
(*   - GrepTool         (the content-search tool, search_file_content)     *)
(*   - GlobTool         (packages/core/src/tools/glob.ts, both modes)      *)
(*   - crawl            (packages/core/src/utils/filesearch/crawler.ts)    *)
(*                                                                         *)
(* Text is modelled as a sequence of one-character strings, so that        *)
(* split / trim / concatenation are computed the way the code computes     *)
(* them.  The external ripgrep process is modelled by the events Node      *)
(* delivers to the handlers the code registers (data, error, close).       *)
(***************************************************************************)
EXTENDS Naturals, Integers, Sequences, FiniteSets, TLC

VARIABLES
    clock,      \* Date.now(), in milliseconds
    fsVer,      \* version of the file tree on disk
    cache,      \* FileCacheService.cache : Map<string, CacheEntry>
    calls,      \* the getAllFiles invocations, by call id
    procs,      \* the ripgrep process spawned by each getAllFiles invocation
    lastStore,  \* history: per cache key, the call that executed cache.set last
    grep,       \* one GrepTool.execute invocation
    glob,       \* one GlobTool.execute invocation
    pool        \* the crawler's worker pool and the crawl jobs

cacheVars == <<clock, fsVer, cache, calls, procs, lastStore>>
vars == <<clock, fsVer, cache, calls, procs, lastStore, grep, glob, pool>>

(***************************************************************************)
(* Bounds of the model.                                                    *)
(***************************************************************************)
MaxCalls == 2
MaxTicks == 2

(***************************************************************************)
(* Text helpers.                                                           *)
(***************************************************************************)
LF == "\n"
CR == "\r"

WhiteSpace == {" ", "\t", LF, CR}

\* String.prototype.split(sep) for a one-character separator
RECURSIVE SplitAcc(_, _, _, _)
SplitAcc(s, sep, cur, acc) ==
    IF s = <<>> THEN Append(acc, cur)
    ELSE IF Head(s) = sep THEN SplitAcc(Tail(s), sep, <<>>, Append(acc, cur))
    ELSE SplitAcc(Tail(s), sep, Append(cur, Head(s)), acc)

Split(s, sep) == SplitAcc(s, sep, <<>>, <<>>)

RECURSIVE TrimStart(_)
TrimStart(s) ==
    IF s # <<>> /\ Head(s) \in WhiteSpace THEN TrimStart(Tail(s)) ELSE s

RECURSIVE TrimEnd(_)
TrimEnd(s) ==
    IF s # <<>> /\ s[Len(s)] \in WhiteSpace
    THEN TrimEnd(SubSeq(s, 1, Len(s) - 1)) ELSE s

\* String.prototype.trim
Trim(s) == TrimEnd(TrimStart(s))

\* Array.prototype.filter((x) => x.length > 0)
RECURSIVE SelectNonEmpty(_)
SelectNonEmpty(s) ==
    IF s = <<>> THEN <<>>
    ELSE IF Len(Head(s)) > 0 THEN <<Head(s)>> \o SelectNonEmpty(Tail(s))
    ELSE SelectNonEmpty(Tail(s))

RECURSIVE Concat(_)
Concat(ss) == IF ss = <<>> THEN <<>> ELSE Head(ss) \o Concat(Tail(ss))

(***************************************************************************)
(* The file tree ripgrep enumerates.  Each file lives in a directory       *)
(* (relative to the root), may be excluded by an ignore rule, exists from  *)
(* some version of the tree on and has a modification time.                *)
(***************************************************************************)
DOT == <<".">>
SUB == <<"s">>

RelativePaths == {DOT, SUB}

Tree == <<
    [dir |-> DOT, name |-> <<"a">>, ignored |-> FALSE, since |-> 0, mtimeMs |-> 1],
    [dir |-> DOT, name |-> <<"i">>, ignored |-> TRUE,  since |-> 0, mtimeMs |-> 3],
    [dir |-> SUB, name |-> <<"b">>, ignored |-> FALSE, since |-> 1, mtimeMs |-> 2] >>

\* the path ripgrep prints for file f when run with working directory cwd
PathFrom(cwd, f) ==
    IF f.dir = cwd THEN f.name ELSE f.dir \o <<"/">> \o f.name

\* rg --files --hidden [--no-ignore], cwd = root/relativePath: one line per file
RECURSIVE RgFilesFrom(_, _, _, _)
RgFilesFrom(i, respectGitIgnore, relativePath, ver) ==
    IF i > Len(Tree) THEN <<>>
    ELSE LET f == Tree[i]
             shown == /\ f.since <= ver
                      /\ (relativePath = DOT \/ f.dir = relativePath)
                      /\ ~(respectGitIgnore /\ f.ignored)
         IN  (IF shown THEN <<PathFrom(relativePath, f) \o <<LF>>>> ELSE <<>>)
             \o RgFilesFrom(i + 1, respectGitIgnore, relativePath, ver)

RgFiles(respectGitIgnore, relativePath, ver) ==
    RgFilesFrom(1, respectGitIgnore, relativePath, ver)

\* the last version of the tree: the one that holds every file of Tree
LastVer == CHOOSE v \in {Tree[i].since : i \in 1..Len(Tree)} :
               \A i \in 1..Len(Tree) : Tree[i].since <= v

(***************************************************************************)
(* FileCacheService                                                        *)
(***************************************************************************)
CACHE_TTL_MS == 10000

\* the clock advances in steps of half the TTL, so that ages below, equal to
\* and above the TTL all occur
TimeStep == CACHE_TTL_MS \div 2

CallIds == 1..MaxCalls

NullCode == -1      \* close event of a process that was killed: code === null
ENOENT == -2        \* close event that follows a failed spawn

TRUE_STR == <<"t", "r", "u", "e">>
FALSE_STR == <<"f", "a", "l", "s", "e">>

CacheKey_PathOnly(respectGitIgnore, relativePath) == <<":">> \o relativePath

\* `${respectGitIgnore}:${relativePath}`
CacheKey(respectGitIgnore, relativePath) ==
    (IF respectGitIgnore THEN TRUE_STR ELSE FALSE_STR) \o <<":">> \o relativePath

\* Map.prototype.has / get / set on a map held as a set of entries
MapHas(m, k) == \E e \in m : e.key = k

MapGet(m, k) == CHOOSE e \in m : e.key = k

MapSet_Merge(m, k, v) ==
    {e \in m : e.key # k}
        \cup {[key |-> k, timestamp |-> v.timestamp,
               files |-> (IF MapHas(m, k) THEN (CHOOSE e \in m : e.key = k).files
                          ELSE <<>>) \o v.files]}

MapSet(m, k, v) ==
    {e \in m : e.key # k}
        \cup {[key |-> k, timestamp |-> v.timestamp, files |-> v.files]}

IsFresh_Inclusive(m, k, now) ==
    MapHas(m, k) /\ now - MapGet(m, k).timestamp <= CACHE_TTL_MS

IsFresh_IgnoresAge(m, k, now) == MapHas(m, k)

IsFresh_Inverted(m, k, now) ==
    MapHas(m, k) /\ now - MapGet(m, k).timestamp > CACHE_TTL_MS

\* cachedEntry && now - cachedEntry.timestamp < CACHE_TTL_MS
IsFresh(m, k, now) ==
    MapHas(m, k) /\ now - MapGet(m, k).timestamp < CACHE_TTL_MS

\* { timestamp: now, files }
CacheEntry(now, files) == [timestamp |-> now, files |-> files]

\* relativePath === '.' ? file : `${relativePath}/${file}`
WithRelativePath(relativePath, file) ==
    IF relativePath = DOT THEN file ELSE relativePath \o <<"/">> \o file

\* stdout.split('\n').map(trim).filter(length > 0).map(prefix)
ParseFiles(stdout, relativePath) ==
    LET lines == Split(stdout, LF)
        trimmed == [i \in 1..Len(lines) |-> Trim(lines[i])]
        kept == SelectNonEmpty(trimmed)
    IN  [i \in 1..Len(kept) |-> WithRelativePath(relativePath, kept[i])]

\* code === 0 || code === 1
IsSuccessCode(code) == code = 0 \/ code = 1

(***************************************************************************)
(* The child process, as seen through the events of its ChildProcess       *)
(* object.  kind "run": ripgrep runs and exits by itself; "fail": ripgrep  *)
(* reports an error (exit code 2, a diagnostic on stderr); "nospawn": the  *)
(* executable could not be started (an error event, then close).           *)
(***************************************************************************)
ProcKinds == {"run", "fail", "nospawn"}

DIAG == <<"E">>

NoProc ==
    [state |-> "none", pending |-> <<>>, errPending |-> <<>>, errorEvent |-> FALSE,
     stdout |-> <<>>, stderr |-> <<>>, code |-> 0, sent |-> <<>>]

\* spawn(rgPath, args, { cwd }) : the events the new process will deliver
\* (sent is history: all that the process writes to its stdout)
SpawnProc(kind, output) ==
    [state |-> "running",
     pending |-> IF kind = "run" THEN output ELSE <<>>,
     errPending |-> IF kind = "fail" THEN <<DIAG>> ELSE <<>>,
     errorEvent |-> (kind = "nospawn"),
     stdout |-> <<>>,
     stderr |-> <<>>,
     code |-> CASE kind = "nospawn" -> ENOENT
                [] kind = "fail" -> 2
                [] OTHER -> IF output = <<>> THEN 1 ELSE 0,
     sent |-> IF kind = "run" THEN output ELSE <<>>]

\* an output of several lines reaches the stdout handler in two chunks
Chunks(lines) ==
    IF Len(lines) <= 1 THEN lines ELSE <<Head(lines), Concat(Tail(lines))>>

\* history: the age of the entry a call found for its key (NoAge: no entry)
NoAge == -1

\* history: an instant that has not come yet
NoTime == -1

\* now, outcome, files and error are what the invocation holds; entryAge,
\* enumeratedAt (the instant at which the ripgrep process that listed the
\* files of this call was spawned) and doneAt (the instant at which the call
\* returned or threw) are history
IdleCall ==
    [pc |-> "idle", respectGitIgnore |-> TRUE, relativePath |-> DOT, now |-> 0,
     outcome |-> "none", files |-> <<>>, error |-> "none", entryAge |-> NoAge,
     enumeratedAt |-> NoTime, doneAt |-> NoTime]

CacheInit ==
    /\ clock = 0
    /\ fsVer = 0
    /\ cache = {}
    /\ calls = [c \in CallIds |-> IdleCall]
    /\ procs = [c \in CallIds |-> NoProc]
    /\ lastStore = {}

(***************************************************************************)
(* GrepTool: paths.  A path is a sequence of segments below "/"; a segment  *)
(* is a piece of text.                                                     *)
(***************************************************************************)
\* this.rootDirectory = path.resolve(rootDirectory)
RootDirectory == << <<"r">> >>

\* path.resolve(base, relative) for a relative path given by its segments
RECURSIVE PathResolve(_, _)
PathResolve(base, rel) ==
    IF rel = <<>> THEN base
    ELSE IF Head(rel) = <<".">> THEN PathResolve(base, Tail(rel))
    ELSE IF Head(rel) = <<".", ".">>
         THEN PathResolve(IF base = <<>> THEN base
                          ELSE SubSeq(base, 1, Len(base) - 1), Tail(rel))
    ELSE PathResolve(Append(base, Head(rel)), Tail(rel))

\* the text of an absolute path: "/" before every segment
PathString(segs) ==
    IF segs = <<>> THEN <<"/">>
    ELSE Concat([i \in 1..Len(segs) |-> <<"/">> \o segs[i]])

\* String.prototype.startsWith
StartsWith(s, prefix) ==
    Len(prefix) <= Len(s) /\ SubSeq(s, 1, Len(prefix)) = prefix

\* path.relative(from, to) for two absolute paths
RECURSIVE PathRelative(_, _)
PathRelative(from, to) ==
    IF from # <<>> /\ to # <<>> /\ Head(from) = Head(to)
    THEN PathRelative(Tail(from), Tail(to))
    ELSE [i \in 1..Len(from) |-> <<".", ".">>] \o to

\* path.basename
PathBasename(segs) == IF segs = <<>> THEN <<>> ELSE <<segs[Len(segs)]>>

\* what is on disk around the root: fs.statSync(path)
DirS == <<"s">>
FileF == <<"f">>
Missing == <<"x">>
Sibling == <<"r", "2">>

StatKind(segs) ==
    IF segs \in {RootDirectory, Append(RootDirectory, DirS), <<Sibling>>}
    THEN "directory"
    ELSE IF segs = Append(RootDirectory, FileF) THEN "file"
    ELSE "ENOENT"

\* resolveAndValidatePath: the resolved directory, or the error thrown
ResolveAndValidatePath(relativePath) ==
    LET targetPath == PathResolve(RootDirectory, relativePath)
    IN  IF /\ ~StartsWith(PathString(targetPath), PathString(RootDirectory))
           /\ targetPath # RootDirectory
        THEN [ok |-> FALSE, error |-> "outside root", path |-> targetPath]
        ELSE IF StatKind(targetPath) = "directory"
        THEN [ok |-> TRUE, error |-> "none", path |-> targetPath]
        ELSE [ok |-> FALSE, error |-> "failed to access path stats",
              path |-> targetPath]

\* new RegExp(pattern) throws: here, on a pattern with an unclosed group
RECURSIVE ParenDepth(_, _)
ParenDepth(pattern, depth) ==
    IF pattern = <<>> THEN depth
    ELSE IF Head(pattern) = "(" THEN ParenDepth(Tail(pattern), depth + 1)
    ELSE IF Head(pattern) = ")"
         THEN (IF depth = 0 THEN -1 ELSE ParenDepth(Tail(pattern), depth - 1))
    ELSE ParenDepth(Tail(pattern), depth)

RegExpCompiles(pattern) == ParenDepth(pattern, 0) = 0

ValidateToolParams_NoPathCheck(params) ==
    IF ~params.schemaOk THEN "schema"
    ELSE IF ~RegExpCompiles(params.pattern) THEN "pattern"
    ELSE "null"

\* validateToolParams: "null", or which check failed
ValidateToolParams(params) ==
    IF ~params.schemaOk THEN "schema"
    ELSE IF ~RegExpCompiles(params.pattern) THEN "pattern"
    ELSE IF ~ResolveAndValidatePath(params.path).ok THEN "path"
    ELSE "null"

(***************************************************************************)
(* GrepTool: from ripgrep's output to the report.  A line of the --json    *)
(* output is held as what JSON.parse makes of it: a match event with its   *)
(* path, line_number and lines.text, an event of another type, a match     *)
(* event without data, or "malformed" when JSON.parse throws.              *)
(***************************************************************************)
\* rawLineContent.split(/\r?\n/)
RECURSIVE SplitLinesAcc(_, _, _)
SplitLinesAcc(s, cur, acc) ==
    IF s = <<>> THEN Append(acc, cur)
    ELSE IF Head(s) = LF THEN SplitLinesAcc(Tail(s), <<>>, Append(acc, cur))
    ELSE IF Head(s) = CR /\ Len(s) >= 2 /\ s[2] = LF
         THEN SplitLinesAcc(Tail(Tail(s)), <<>>, Append(acc, cur))
    ELSE SplitLinesAcc(Tail(s), Append(cur, Head(s)), acc)

SplitLines(s) == SplitLinesAcc(s, <<>>, <<>>)

\* the number a sum with undefined gives: undefined + index is NaN
NaN == -1

\* the matches.push loop over one match event: split, drop the empty
\* fragments, number what is left from the event's line number.  An event
\* without data.line_number throws nothing: its matches are numbered NaN.
ExpandMatch(absolutePath, event) ==
    LET lines == SelectNonEmpty(SplitLines(event.text))
    IN  [index \in 1..Len(lines) |->
            [filePath |-> PathRelative(absolutePath, event.path),
             lineNumber |-> IF event.line_number = NaN THEN NaN
                            ELSE event.line_number + (index - 1),
             line |-> Trim(lines[index])]]

\* the forEach over stdoutData.split(EOL): every line that parses to a match
\* event with its fields contributes; any other line contributes nothing
RECURSIVE ParseOutput(_, _)
ParseOutput(absolutePath, lines) ==
    IF lines = <<>> THEN <<>>
    ELSE (IF Head(lines).type = "match"
          THEN ExpandMatch(absolutePath, Head(lines)) ELSE <<>>)
         \o ParseOutput(absolutePath, Tail(lines))

\* Array.prototype.sort((a, b) => a.lineNumber - b.lineNumber) after a push:
\* the new match goes behind the matches whose line number is not greater
\* (matches numbered NaN only meet their like: they share one file)
RECURSIVE InsertSorted(_, _)
InsertSorted(sorted, match) ==
    IF sorted = <<>> THEN <<match>>
    ELSE IF Head(sorted).lineNumber <= match.lineNumber
         THEN <<Head(sorted)>> \o InsertSorted(Tail(sorted), match)
    ELSE <<match>> \o sorted

\* the properties every object inherits from Object.prototype
ObjectPrototypeKeys ==
    {"constructor", "toString", "valueOf", "hasOwnProperty", "__proto__"}

\* acc[relativeFilePath] on the accumulator {}: "own" (an array this reduce
\* put there), "inherited" (a member of Object.prototype) or "undefined"
Lookup(acc, key) ==
    IF \E i \in 1..Len(acc) : acc[i].file = key THEN "own"
    ELSE IF Len(key) = 1 /\ Len(key[1]) = 1 /\ key[1][1] \in ObjectPrototypeKeys
    THEN "inherited"
    ELSE "undefined"

\* the key a match is grouped under
RelativeFilePath(searchDirAbs, match) ==
    LET rel == PathRelative(searchDirAbs, PathResolve(searchDirAbs, match.filePath))
    IN  IF rel # <<>> THEN rel ELSE PathBasename(match.filePath)

\* matches.reduce(...): the groups in insertion order, or the TypeError of
\* push on something that is no array
RECURSIVE GroupByFile(_, _, _)
GroupByFile(searchDirAbs, matches, acc) ==
    IF matches = <<>> THEN [ok |-> TRUE, groups |-> acc]
    ELSE LET match == Head(matches)
             key == RelativeFilePath(searchDirAbs, match)
             found == Lookup(acc, key)
         IN  IF found = "inherited" THEN [ok |-> FALSE, groups |-> <<>>]
             ELSE IF found = "undefined"
             THEN GroupByFile(searchDirAbs, Tail(matches),
                      Append(acc, [file |-> key, matches |-> <<match>>]))
             ELSE GroupByFile(searchDirAbs, Tail(matches),
                      [i \in 1..Len(acc) |->
                          IF acc[i].file = key
                          THEN [acc[i] EXCEPT !.matches = InsertSorted(@, match)]
                          ELSE acc[i]])

(***************************************************************************)
(* GrepTool.execute: one invocation, its ripgrep process and the events    *)
(* of that process.                                                        *)
(***************************************************************************)
MaxEvents == 2

GrepFiles == {<<"a">>, <<"constructor">>}

StartLines == {5, 6}

Texts == {<<"foo">>, <<"foo", LF, "bar">>, <<"foo", LF, LF, "bar">>,
          <<"foo", CR, LF>>}

Patterns == {<<"f", "o", "o">>, <<"(", "f">>}

PathParams == {<<>>, <<DirS>>, <<FileF>>, <<Missing>>, <<<<".", ".">>, Sibling>>}

GrepParams ==
    [pattern : Patterns, path : PathParams, schemaOk : BOOLEAN]

\* the file of the match events that lack data.line_number
UnnumberedFile == <<"n">>

\* the lines ripgrep --json can print for a search in directory dir, and
\* the lines that are not what the parser expects: a line that is no JSON
\* ("malformed"), a match event without data, a match event whose data has
\* no line_number (line_number is undefined)
OutputLines(dir) ==
    [type : {"match"}, path : {Append(dir, f) : f \in GrepFiles},
     line_number : StartLines, text : Texts]
    \cup [type : {"summary", "malformed", "match without data"},
          path : {<<>>}, line_number : {0}, text : {<<>>}]
    \cup [type : {"match"}, path : {Append(dir, UnnumberedFile)},
          line_number : {NaN}, text : {<<"foo">>}]

RECURSIVE SeqsUpTo(_, _)
SeqsUpTo(S, n) ==
    IF n = 0 THEN {<<>>}
    ELSE LET shorter == SeqsUpTo(S, n - 1)
         IN  shorter \cup {Append(q, x) : q \in shorter, x \in S}

Outputs(dir) == SeqsUpTo(OutputLines(dir), MaxEvents)

GrepProcKinds == {"run", "fail", "killed", "nospawn"}

SpawnOptions_NoSignal == [windowsHide |-> TRUE, signal |-> FALSE]

\* spawn(rgPath, rgArgs, { cwd: absolutePath, windowsHide: true, signal })
SpawnOptions == [windowsHide |-> TRUE, signal |-> TRUE]

NoGrepProc ==
    [state |-> "none", kind |-> "run", signal |-> FALSE, pending |-> <<>>,
     errPending |-> <<>>, errorEvent |-> FALSE, errorCause |-> "none",
     stdoutChunks |-> <<>>, stderrChunks |-> <<>>, code |-> 0, sent |-> <<>>]

\* the events the new process will deliver; ripgrep exits with 0 when it
\* printed a match and with 1 when it found none
SpawnGrep(kind, output, options) ==
    [state |-> "running",
     kind |-> kind,
     signal |-> options.signal,
     pending |-> IF kind = "run" THEN output ELSE <<>>,
     errPending |-> IF kind \in {"fail", "killed"} THEN <<DIAG>> ELSE <<>>,
     errorEvent |-> (kind = "nospawn"),
     errorCause |-> IF kind = "nospawn" THEN "spawn ENOENT" ELSE "none",
     stdoutChunks |-> <<>>,
     stderrChunks |-> <<>>,
     code |-> CASE kind = "nospawn" -> ENOENT
                [] kind = "fail" -> 2
                [] kind = "killed" -> NullCode
                [] OTHER -> IF \E i \in 1..Len(output) : output[i].type = "match"
                            THEN 0 ELSE 1,
     sent |-> IF kind = "run" THEN output ELSE <<>>]

NoResult == [kind |-> "none", groups |-> <<>>, count |-> 0, message |-> <<>>]

GrepIdle ==
    [pc |-> "idle",
     params |-> [pattern |-> <<>>, path |-> <<>>, schemaOk |-> TRUE],
     searchDirAbs |-> <<>>,
     aborted |-> FALSE,
     abortedInFlight |-> FALSE,
     errorSettled |-> FALSE,
     proc |-> NoGrepProc,
     settled |-> "none",
     matches |-> <<>>,
     result |-> NoResult]

GrepInit == grep = GrepIdle

\* the catch block of execute
ErrorResult(message) ==
    [NoResult EXCEPT !.kind = "error",
                     !.message = <<"Error during grep search operation: ">> \o message]

\* new Error(`Failed to start ripgrep: ${err.message}`)
StartError(cause) == <<"Failed to start ripgrep: ", cause>>

\* new Error(`ripgrep exited with code ${code}: ${stderrData || 'Unknown error'}`)
ExitError(code, stderrData) ==
    <<"ripgrep exited with code ", ToString(code), ": ">>
        \o (IF stderrData # <<>> THEN stderrData ELSE <<"Unknown error">>)

\* execute after the await: no matches, or the report grouped by file
ResultOf(searchDirAbs, matches) ==
    IF Len(matches) = 0 THEN [NoResult EXCEPT !.kind = "no matches"]
    ELSE LET grouped == GroupByFile(searchDirAbs, matches, <<>>)
         IN  IF grouped.ok
             THEN [NoResult EXCEPT !.kind = "report", !.groups = grouped.groups,
                                   !.count = Len(matches)]
             ELSE ErrorResult(<<"acc[relativeFilePath].push is not a function">>)

CloseOutcome_NullIsEmpty(code) ==
    IF code = 0 THEN "parse" ELSE IF code = 1 \/ code = NullCode THEN "empty"
    ELSE "reject"

\* the branches of the close handler
CloseOutcome(code) ==
    IF code = 0 THEN "parse" ELSE IF code = 1 THEN "empty" ELSE "reject"

\* execute up to its await: validation, and the spawn of performGrepSearch
GrepExecute(params) ==
    /\ grep.pc = "idle"
    /\ LET validationError == ValidateToolParams(params)
           resolved == ResolveAndValidatePath(params.path)
       IN  IF validationError # "null"
           THEN grep' = [grep EXCEPT !.pc = "done", !.params = params,
                            !.result = [NoResult EXCEPT !.kind = "invalid",
                                                        !.message = <<validationError>>]]
           ELSE IF ~resolved.ok
           THEN grep' = [grep EXCEPT !.pc = "done", !.params = params,
                            !.result = ErrorResult(<<resolved.error>>)]
           ELSE \E kind \in GrepProcKinds, output \in Outputs(resolved.path) :
                /\ kind # "run" => output = <<>>
                /\ grep' = [grep EXCEPT !.pc = "searching", !.params = params,
                                !.searchDirAbs = resolved.path,
                                !.settled = "pending",
                                !.proc = SpawnGrep(kind, output, SpawnOptions)]
    /\ UNCHANGED <<cacheVars, glob, pool>>

\* the caller triggers the signal.  Node kills a process that was spawned
\* with the signal and emits an error event (AbortError) on it; the close
\* event of the killed process carries no exit code.
GrepAbort ==
    /\ grep.proc.state = "running"
    /\ ~grep.aborted
    /\ grep' = [grep EXCEPT
            !.aborted = TRUE,
            !.abortedInFlight = (grep.pc = "searching" /\ grep.proc.kind # "nospawn"),
            !.proc = IF grep.proc.signal /\ grep.proc.kind # "nospawn"
                     THEN [@ EXCEPT !.pending = <<>>, !.errPending = <<>>,
                                    !.errorEvent = TRUE,
                                    !.errorCause = "The operation was aborted",
                                    !.code = NullCode]
                     ELSE @]
    /\ UNCHANGED <<cacheVars, glob, pool>>

\* child.stdout.on('data'): stdoutChunks.push(chunk)
GrepStdoutData ==
    /\ grep.proc.state = "running"
    /\ grep.proc.pending # <<>>
    /\ grep' = [grep EXCEPT !.proc.stdoutChunks = Append(@, Head(grep.proc.pending)),
                            !.proc.pending = Tail(@)]
    /\ UNCHANGED <<cacheVars, glob, pool>>

\* child.stderr.on('data'): stderrChunks.push(chunk)
GrepStderrData ==
    /\ grep.proc.state = "running"
    /\ grep.proc.errPending # <<>>
    /\ grep' = [grep EXCEPT !.proc.stderrChunks = Append(@, Head(grep.proc.errPending)),
                            !.proc.errPending = Tail(@)]
    /\ UNCHANGED <<cacheVars, glob, pool>>

\* child.on('error'): reject; execute's catch block makes the error result
GrepError ==
    /\ grep.proc.state \in {"running", "closed"}
    /\ grep.proc.errorEvent
    /\ grep' = IF grep.settled = "pending"
               THEN [grep EXCEPT !.proc.errorEvent = FALSE,
                                 !.errorSettled = TRUE,
                                 !.settled = "rejected",
                                 !.pc = "done",
                                 !.result = ErrorResult(StartError(grep.proc.errorCause))]
               ELSE [grep EXCEPT !.proc.errorEvent = FALSE]
    /\ UNCHANGED <<cacheVars, glob, pool>>

\* child.on('close'): parse the output (code 0), no matches (code 1) or
\* reject; execute goes on from the await.  Node emits close once the
\* streams have ended, and after the error event of a failed spawn.
GrepClose ==
    /\ grep.proc.state = "running"
    /\ grep.proc.pending = <<>>
    /\ grep.proc.errPending = <<>>
    /\ grep.proc.errorEvent => grep.proc.kind # "nospawn"
    /\ LET stdoutData == grep.proc.stdoutChunks
           stderrData == Concat(grep.proc.stderrChunks)
           outcome == CloseOutcome(grep.proc.code)
           matches == IF outcome = "parse"
                      THEN ParseOutput(grep.searchDirAbs, stdoutData) ELSE <<>>
       IN  grep' = IF grep.settled # "pending"
                   THEN [grep EXCEPT !.proc.state = "closed"]
                   ELSE IF outcome = "reject"
                   THEN [grep EXCEPT !.proc.state = "closed",
                            !.settled = "rejected",
                            !.pc = "done",
                            !.result = ErrorResult(ExitError(grep.proc.code, stderrData))]
                   ELSE [grep EXCEPT !.proc.state = "closed",
                            !.settled = "resolved",
                            !.pc = "done",
                            !.matches = matches,
                            !.result = ResultOf(grep.searchDirAbs, matches)]
    /\ UNCHANGED <<cacheVars, glob, pool>>

GrepNext ==
    \/ \E params \in GrepParams : GrepExecute(params)
    \/ GrepAbort
    \/ GrepStdoutData
    \/ GrepStderrData
    \/ GrepError
    \/ GrepClose

(***************************************************************************)
(* GlobTool (packages/core/src/tools/glob.ts).  The file holds two         *)
(* implementations of the tool: the "direct" one lets ripgrep enumerate    *)
(* the search directory with the pattern as a --glob filter and sorts by   *)
(* modification time; the "cached" one filters the list of                 *)
(* FileCacheService.getAllFiles through a regular expression made of the   *)
(* pattern.  A pattern and a path parameter are pieces of text.            *)
(***************************************************************************)
GlobModes == {"direct", "cached"}

\* the segments of a path given as text
PathSegments(text) == SelectNonEmpty(Split(text, "/"))

\* path.resolve(this.rootDirectory, params.path || '.')
GlobResolve(pathParam) ==
    IF pathParam # <<>> /\ Head(pathParam) = "/"
    THEN PathResolve(<<>>, PathSegments(pathParam))
    ELSE PathResolve(RootDirectory, PathSegments(pathParam))

\* isWithinRoot: the root itself, or a path that starts with the root and a
\* separator
IsWithinRoot(segs) ==
    LET normalizedPath == PathString(segs)
        normalizedRoot == PathString(RootDirectory)
        rootWithSep == IF normalizedRoot[Len(normalizedRoot)] = "/"
                       THEN normalizedRoot ELSE normalizedRoot \o <<"/">>
    IN  normalizedPath = normalizedRoot \/ StartsWith(normalizedPath, rootWithSep)

\* validateToolParams of GlobTool: "null", or which check failed
ValidateGlobParams(params) ==
    LET searchDirAbsolute == GlobResolve(params.path)
    IN  IF ~params.schemaOk THEN "schema"
        ELSE IF ~IsWithinRoot(searchDirAbsolute) THEN "outside root"
        ELSE IF StatKind(searchDirAbsolute) = "file" THEN "not a directory"
        ELSE IF StatKind(searchDirAbsolute) = "ENOENT" THEN "does not exist"
        ELSE IF Trim(params.pattern) = <<>> THEN "empty pattern"
        ELSE "null"

\* path.join of two pieces of text that need no normalisation
PathJoin(a, b) == a \o <<"/">> \o b

\* the directory of the tree (DOT, SUB) an absolute directory stands for
TreeDir(segs) ==
    IF segs = RootDirectory THEN DOT
    ELSE Concat(SubSeq(segs, Len(RootDirectory) + 1, Len(segs)))

(***************************************************************************)
(* Patterns.  glob-to-regexp (extended, globstar) turns a glob into a      *)
(* regular expression, held here as its tokens: a literal character,       *)
(* "star" for a run of characters other than "/", "globstar" for a run of  *)
(* whole path segments.                                                    *)
(***************************************************************************)
RECURSIVE LeadingStars(_)
LeadingStars(s) ==
    IF s # <<>> /\ Head(s) = "*" THEN 1 + LeadingStars(Tail(s)) ELSE 0

RECURSIVE GlobToRegexp(_, _)
GlobToRegexp(str, prevChar) ==
    IF str = <<>> THEN <<>>
    ELSE IF Head(str) = "*"
    THEN LET starCount == LeadingStars(str)
             rest == SubSeq(str, starCount + 1, Len(str))
             nextChar == IF rest = <<>> THEN "" ELSE Head(rest)
             isGlobstar == /\ starCount > 1
                           /\ prevChar \in {"/", ""}
                           /\ nextChar \in {"/", ""}
         IN  IF isGlobstar
             THEN <<"globstar">>
                    \o GlobToRegexp(IF rest = <<>> THEN rest ELSE Tail(rest), "/")
             ELSE <<"star">> \o GlobToRegexp(rest, "*")
    ELSE <<Head(str)>> \o GlobToRegexp(Tail(str), Head(str))

\* new RegExp(reStr) inside glob-to-regexp throws on a character class that
\* is not closed; ripgrep refuses such a glob as well
RECURSIVE BracketDepth(_, _)
BracketDepth(pattern, depth) ==
    IF pattern = <<>> THEN depth
    ELSE IF Head(pattern) = "[" THEN BracketDepth(Tail(pattern), depth + 1)
    ELSE IF Head(pattern) = "]" /\ depth > 0
         THEN BracketDepth(Tail(pattern), depth - 1)
    ELSE BracketDepth(Tail(pattern), depth)

GlobCompiles(pattern) == BracketDepth(pattern, 0) = 0

ToLower(c) == IF c = "A" THEN "a" ELSE IF c = "B" THEN "b" ELSE c

\* the anchored regular expression ^tokens$ matches the text
RECURSIVE RegexMatches(_, _, _)
RegexMatches(tokens, text, ignoreCase) ==
    IF tokens = <<>> THEN text = <<>>
    ELSE IF Head(tokens) = "star"
    THEN \E k \in 0..Len(text) :
            /\ \A i \in 1..k : text[i] # "/"
            /\ RegexMatches(Tail(tokens), SubSeq(text, k + 1, Len(text)), ignoreCase)
    ELSE IF Head(tokens) = "globstar"
    THEN \E k \in 0..Len(text) :
            /\ k = 0 \/ k = Len(text) \/ text[k] = "/"
            /\ RegexMatches(Tail(tokens), SubSeq(text, k + 1, Len(text)), ignoreCase)
    ELSE /\ text # <<>>
         /\ IF ignoreCase THEN ToLower(Head(text)) = ToLower(Head(tokens))
            ELSE Head(text) = Head(tokens)
         /\ RegexMatches(Tail(tokens), Tail(text), ignoreCase)

\* the text behind the last "/"
RECURSIVE TextBasename(_)
TextBasename(text) ==
    IF \E i \in 1..Len(text) : text[i] = "/" THEN TextBasename(Tail(text)) ELSE text

\* ripgrep --glob / --iglob: a glob without "/" is matched against the file
\* name at any depth, a glob with "/" against the path from the working
\* directory
RgGlobMatches(pattern, relativeFile, ignoreCase) ==
    RegexMatches(GlobToRegexp(pattern, ""),
                 IF \E i \in 1..Len(pattern) : pattern[i] = "/"
                 THEN relativeFile ELSE TextBasename(relativeFile),
                 ignoreCase)

\* rg --files --glob pattern --hidden [--no-ignore], cwd = searchDirAbsolute
RECURSIVE RgGlobFilesFrom(_, _, _, _, _, _)
RgGlobFilesFrom(i, pattern, ignoreCase, respectGitIgnore, cwd, ver) ==
    IF i > Len(Tree) THEN <<>>
    ELSE LET f == Tree[i]
             shown == /\ f.since <= ver
                      /\ (cwd = DOT \/ f.dir = cwd)
                      /\ ~(respectGitIgnore /\ f.ignored)
                      /\ RgGlobMatches(pattern, PathFrom(cwd, f), ignoreCase)
         IN  (IF shown THEN <<PathFrom(cwd, f) \o <<LF>>>> ELSE <<>>)
             \o RgGlobFilesFrom(i + 1, pattern, ignoreCase, respectGitIgnore, cwd, ver)

RgGlobFiles(params, cwd, ver) ==
    RgGlobFilesFrom(1, params.pattern, ~params.case_sensitive,
                    params.respect_git_ignore # "false", cwd, ver)

\* rg -e regex - [--ignore-case]: the lines of stdin the expression matches
RECURSIVE RgFilter(_, _, _)
RgFilter(tokens, lines, ignoreCase) ==
    IF lines = <<>> THEN <<>>
    ELSE (IF RegexMatches(tokens, Head(lines), ignoreCase)
          THEN <<Head(lines) \o <<LF>>>> ELSE <<>>)
         \o RgFilter(tokens, Tail(lines), ignoreCase)

\* fs.statSync(file).mtimeMs for a file of the tree given by its absolute path
MtimeMs(file) ==
    LET i == CHOOSE i \in 1..Len(Tree) :
                 file = PathString(RootDirectory) \o <<"/">> \o PathFrom(DOT, Tree[i])
    IN  Tree[i].mtimeMs

\* files.map(statSync), with mtimeMs 0 for a file whose stat fails
FileStats(files, gone) ==
    [i \in 1..Len(files) |->
        [fullpath |-> files[i],
         mtimeMs |-> IF files[i] \in gone THEN 0 ELSE MtimeMs(files[i])]]

InsertByMtime_Ascending(sorted, entry) ==
    IF sorted = <<>> THEN <<entry>>
    ELSE LET k == Cardinality({i \in 1..Len(sorted) :
                                 sorted[i].mtimeMs <= entry.mtimeMs})
         IN  SubSeq(sorted, 1, k) \o <<entry>> \o SubSeq(sorted, k + 1, Len(sorted))

\* one step of the stable sort by (a, b) => b.mtimeMs - a.mtimeMs: the entry
\* goes behind the entries that are not older
InsertByMtime(sorted, entry) ==
    IF sorted = <<>> THEN <<entry>>
    ELSE LET k == Cardinality({i \in 1..Len(sorted) :
                                 sorted[i].mtimeMs >= entry.mtimeMs})
         IN  SubSeq(sorted, 1, k) \o <<entry>> \o SubSeq(sorted, k + 1, Len(sorted))

\* fileStats.sort(...)
RECURSIVE SortByMtime(_, _)
SortByMtime(fileStats, sorted) ==
    IF fileStats = <<>> THEN sorted
    ELSE SortByMtime(Tail(fileStats), InsertByMtime(sorted, Head(fileStats)))

\* stdout.split('\n').map(trim).filter(length > 0).map(join(searchDirAbsolute))
DirectFiles(stdout, searchDirAbsolute) ==
    LET lines == Split(stdout, LF)
        trimmed == [i \in 1..Len(lines) |-> Trim(lines[i])]
        kept == SelectNonEmpty(trimmed)
    IN  [i \in 1..Len(kept) |-> PathJoin(PathString(searchDirAbsolute), kept[i])]

\* the close handler of the direct mode for code 0 or 1: the sorted paths
DirectSortedPaths(stdout, searchDirAbsolute, gone) ==
    LET fileStats == FileStats(DirectFiles(stdout, searchDirAbsolute), gone)
        sortedStats == SortByMtime(fileStats, <<>>)
    IN  [i \in 1..Len(sortedStats) |-> sortedStats[i].fullpath]

\* Array.prototype.filter((line) => line.trim() !== '')
RECURSIVE SelectNonBlank(_)
SelectNonBlank(lines) ==
    IF lines = <<>> THEN <<>>
    ELSE (IF Trim(Head(lines)) # <<>> THEN <<Head(lines)>> ELSE <<>>)
         \o SelectNonBlank(Tail(lines))

CachedPaths_Reversed(stdout) ==
    LET matchingFiles == SelectNonBlank(Split(stdout, LF))
        absolute == [i \in 1..Len(matchingFiles) |->
                        PathJoin(PathString(RootDirectory), matchingFiles[i])]
    IN  [i \in 1..Len(absolute) |-> absolute[Len(absolute) + 1 - i]]

\* the cached mode after the filter process closed: the matching lines, each
\* joined to the root directory
CachedPaths(stdout) ==
    LET matchingFiles == SelectNonBlank(Split(stdout, LF))
    IN  [i \in 1..Len(matchingFiles) |->
            PathJoin(PathString(RootDirectory), matchingFiles[i])]

\* params.path ? path.join(params.path, params.pattern) : params.pattern
GlobPattern(params) ==
    IF params.path # <<>> THEN PathJoin(params.path, params.pattern)
    ELSE params.pattern

\* params.respect_git_ignore ?? true
RespectGitIgnoreOrTrue(params) == params.respect_git_ignore # "false"

(***************************************************************************)
(* GlobTool.execute: one invocation in one of the two modes, the ripgrep   *)
(* process it spawns and, in the cached mode, the getAllFiles call it      *)
(* awaits.                                                                 *)
(***************************************************************************)
GlobPatterns == {<<"*">>, <<"*", "*", "/", "*">>, <<"[">>}

\* the path parameters validateToolParams accepts: none, a directory below
\* the root given relative to it, the same directory given absolutely
GlobInsidePaths == {<<>>, <<"s">>, <<"/", "r", "/", "s">>}

\* the path parameters it refuses: a directory beside the root, a path that
\* does not exist, a file
GlobRefusedPaths == {<<".", ".", "/", "r", "2">>, <<"x">>, <<"f">>}

\* the requests: the patterns with every accepted path, a pattern in upper
\* case with both values of case_sensitive, and one request for each check
\* of validateToolParams that can fail
GlobParams ==
    [pattern : GlobPatterns, path : GlobInsidePaths, case_sensitive : {FALSE},
     respect_git_ignore : {"undefined", "false"}, schemaOk : {TRUE}]
    \cup [pattern : {<<"A">>}, path : GlobInsidePaths, case_sensitive : BOOLEAN,
          respect_git_ignore : {"undefined", "false"}, schemaOk : {TRUE}]
    \cup [pattern : {<<"*">>}, path : GlobRefusedPaths, case_sensitive : {FALSE},
          respect_git_ignore : {"undefined"}, schemaOk : {TRUE}]
    \cup [pattern : {<<"*">>, <<" ">>}, path : {<<>>}, case_sensitive : {FALSE},
          respect_git_ignore : {"undefined"}, schemaOk : BOOLEAN]

NoGlobProc ==
    [state |-> "none", kind |-> "run", pending |-> <<>>, errPending |-> <<>>,
     errorEvent |-> FALSE, errorCause |-> "none", stdout |-> <<>>,
     stderr |-> <<>>, code |-> 0, sent |-> <<>>]

\* spawn(rgPath, args, { cwd, signal }): the events the new process will
\* deliver.  A process spawned with a signal that is aborted already is
\* killed at once: an error event (AbortError) and a close without code.
SpawnGlob(kind, output, aborted) ==
    IF aborted /\ kind # "nospawn"
    THEN [NoGlobProc EXCEPT !.state = "running", !.kind = kind,
                            !.errorEvent = TRUE,
                            !.errorCause = "The operation was aborted",
                            !.code = NullCode]
    ELSE [state |-> "running",
          kind |-> kind,
          pending |-> IF kind = "run" THEN output ELSE <<>>,
          errPending |-> IF kind = "fail" THEN <<DIAG>> ELSE <<>>,
          errorEvent |-> (kind = "nospawn"),
          errorCause |-> IF kind = "nospawn" THEN "spawn ENOENT" ELSE "none",
          stdout |-> <<>>,
          stderr |-> <<>>,
          code |-> CASE kind = "nospawn" -> ENOENT
                     [] kind = "fail" -> 2
                     [] OTHER -> IF output = <<>> THEN 1 ELSE 0,
          sent |-> IF kind = "run" THEN output ELSE <<>>]

NoGlobResult ==
    [kind |-> "none", paths |-> <<>>, returnDisplay |-> "none", message |-> <<>>]

GlobIdle ==
    [pc |-> "idle",
     mode |-> "direct",
     params |-> [pattern |-> <<>>, path |-> <<>>, case_sensitive |-> FALSE,
                 respect_git_ignore |-> "undefined", schemaOk |-> TRUE],
     searchDirAbsolute |-> <<>>,
     call |-> 0,
     ver |-> 0,
     aborted |-> FALSE,
     abortedAt |-> "none",
     errorSettled |-> FALSE,
     proc |-> NoGlobProc,
     gone |-> {},
     settled |-> "none",
     result |-> NoGlobResult]

GlobInit == glob = GlobIdle

\* the result of a search that ran: the paths and the display text
FoundResult(paths) ==
    [NoGlobResult EXCEPT !.kind = "found", !.paths = paths,
                         !.returnDisplay = IF Len(paths) = 0 THEN "No files found"
                                           ELSE "Found matching file(s)"]

\* the catch block of execute, which the cached mode reaches
GlobErrorResult(message) ==
    [NoGlobResult EXCEPT !.kind = "error",
                         !.returnDisplay = "Error: An unexpected error occurred.",
                         !.message = <<"Error during glob search operation: ">> \o message]

\* the direct mode returns the promise without awaiting it: a rejection
\* passes by the catch block and rejects the promise of execute
GlobRejection(message) ==
    [NoGlobResult EXCEPT !.kind = "rejected", !.message = message]

\* new Error(`ripgrep exited with code ${code}. Stderr: ${stderr}`)
GlobExitError(code, stderr) ==
    <<"ripgrep exited with code ", ToString(code), ". Stderr: ">> \o stderr

\* how a rejection of the search promise reaches the caller of execute
GlobFailure(mode, message) ==
    IF mode = "direct" THEN GlobRejection(message) ELSE GlobErrorResult(message)

GlobSuccessCode_OnlyZero(code) == code = 0

\* code === 0 || code === 1 in the close handlers of both modes
GlobSuccessCode(code) == code = 0 \/ code = 1

\* the cached mode from the await of getAllFiles on: the error of a failed
\* enumeration, the error of a pattern that does not compile, or the spawn
\* of the filter process with the list on its stdin
GlobAfterGetAllFiles(g, call) ==
    IF call.pc # "done" THEN glob' = g
    ELSE IF call.outcome = "threw"
    THEN glob' = [g EXCEPT !.pc = "done",
                           !.result = GlobErrorResult(<<"enumeration failed: ", call.error>>)]
    ELSE IF ~GlobCompiles(GlobPattern(g.params))
    THEN glob' = [g EXCEPT !.pc = "done",
                           !.result = GlobErrorResult(<<"Invalid regular expression">>)]
    ELSE \E kind \in ProcKinds :
            glob' = [g EXCEPT
                !.pc = "filtering",
                !.settled = "pending",
                !.proc = SpawnGlob(kind,
                            Chunks(RgFilter(GlobToRegexp(GlobPattern(g.params), ""),
                                            call.files, ~g.params.case_sensitive)),
                            g.aborted)]

\* the continuation of a getAllFiles call that has just settled, when it is
\* the call the glob request awaits
GlobResume(c) ==
    IF glob.pc = "awaiting" /\ glob.call = c
    THEN GlobAfterGetAllFiles(glob, calls'[c])
    ELSE UNCHANGED glob

(***************************************************************************)
(* FileCacheService: the actions.                                          *)
(***************************************************************************)
\* some call is still to be issued
CallsLeft == \E c \in CallIds : calls[c].pc = "idle"

\* time passes.  The clock is read only where getAllFiles starts (Date.now()),
\* so it is advanced only while a call is still to be issued.
Tick ==
    /\ CallsLeft
    /\ clock < MaxTicks * TimeStep
    /\ clock' = clock + TimeStep
    /\ UNCHANGED <<fsVer, cache, calls, procs, lastStore, grep, glob, pool>>

\* somebody adds a file to the tree (read only where ripgrep is spawned)
FsChange ==
    /\ CallsLeft
    /\ fsVer < LastVer
    /\ fsVer' = fsVer + 1
    /\ UNCHANGED <<clock, cache, calls, procs, lastStore, grep, glob, pool>>

\* history: the instant at which the process that listed the files of the
\* entry of a key was spawned
EnumeratedAt(cacheKey) ==
    LET h == CHOOSE h \in lastStore : h[1] = cacheKey
    IN  calls[h[2]].enumeratedAt

\* getAllFiles up to its await: the lookup and, on a miss, the spawn of
\* fetchFilesFromRipgrep
GetAllFilesBody(c, respectGitIgnore, relativePath) ==
    /\ calls[c].pc = "idle"
    /\ \A d \in CallIds : d < c => calls[d].pc # "idle"
    /\ LET cacheKey == CacheKey(respectGitIgnore, relativePath)
           now == clock
           started == [IdleCall EXCEPT !.respectGitIgnore = respectGitIgnore,
                                       !.relativePath = relativePath,
                                       !.now = now,
                                       !.entryAge =
                                           IF MapHas(cache, cacheKey)
                                           THEN now - MapGet(cache, cacheKey).timestamp
                                           ELSE NoAge]
       IN  IF IsFresh(cache, cacheKey, now)
           THEN /\ calls' = [calls EXCEPT ![c] =
                        [started EXCEPT !.pc = "done", !.outcome = "returned",
                                        !.files = MapGet(cache, cacheKey).files,
                                        !.enumeratedAt = EnumeratedAt(cacheKey),
                                        !.doneAt = clock]]
                /\ UNCHANGED procs
           ELSE \E kind \in ProcKinds :
                /\ calls' = [calls EXCEPT ![c] =
                        [started EXCEPT !.pc = "awaiting", !.enumeratedAt = clock]]
                /\ procs' = [procs EXCEPT ![c] =
                        SpawnProc(kind,
                            Chunks(RgFiles(respectGitIgnore, relativePath, fsVer)))]
    /\ UNCHANGED <<clock, fsVer, cache, lastStore>>

\* a call of getAllFiles by another caller than the glob tool
GetAllFiles(c, respectGitIgnore, relativePath) ==
    /\ GetAllFilesBody(c, respectGitIgnore, relativePath)
    /\ UNCHANGED <<grep, glob, pool>>

\* the store stamped with the instant at which it is executed
ResumeResolved_StoreTime(c, files) ==
    LET cacheKey == CacheKey(calls[c].respectGitIgnore, calls[c].relativePath)
    IN  /\ cache' = MapSet(cache, cacheKey, CacheEntry(clock, files))
        /\ lastStore' = {h \in lastStore : h[1] # cacheKey} \cup {<<cacheKey, c>>}
        /\ calls' = [calls EXCEPT ![c].pc = "done", ![c].outcome = "returned",
                                  ![c].files = files, ![c].doneAt = clock]

\* the promise of fetchFilesFromRipgrep resolves while getAllFiles awaits it:
\* this.cache.set(cacheKey, { timestamp: now, files }); return files
ResumeResolved(c, files) ==
    LET cacheKey == CacheKey(calls[c].respectGitIgnore, calls[c].relativePath)
    IN  /\ cache' = MapSet(cache, cacheKey, CacheEntry(calls[c].now, files))
        /\ lastStore' = {h \in lastStore : h[1] # cacheKey} \cup {<<cacheKey, c>>}
        /\ calls' = [calls EXCEPT ![c].pc = "done", ![c].outcome = "returned",
                                  ![c].files = files, ![c].doneAt = clock]

\* a failure remembered as an empty list
ResumeRejected_CachesEmpty(c, error) ==
    LET cacheKey == CacheKey(calls[c].respectGitIgnore, calls[c].relativePath)
    IN  /\ cache' = MapSet(cache, cacheKey, CacheEntry(calls[c].now, <<>>))
        /\ lastStore' = {h \in lastStore : h[1] # cacheKey} \cup {<<cacheKey, c>>}
        /\ calls' = [calls EXCEPT ![c].pc = "done", ![c].outcome = "threw",
                                  ![c].error = error, ![c].doneAt = clock]

\* the promise rejects while getAllFiles awaits it: the await throws
ResumeRejected(c, error) ==
    /\ calls' = [calls EXCEPT ![c].pc = "done", ![c].outcome = "threw",
                              ![c].error = error, ![c].doneAt = clock]
    /\ UNCHANGED <<cache, lastStore>>

\* a data handler that hands over what it has on the first chunk
FetchStdoutData_ResolvesOnData(c) ==
    /\ procs[c].state = "running"
    /\ procs[c].pending # <<>>
    /\ procs' = [procs EXCEPT ![c].stdout = @ \o Head(procs[c].pending),
                              ![c].pending = Tail(@)]
    /\ IF calls[c].pc = "awaiting"
       THEN ResumeResolved(c, ParseFiles(procs'[c].stdout, calls[c].relativePath))
       ELSE UNCHANGED <<cache, calls, lastStore>>
    /\ UNCHANGED <<clock, fsVer, grep, glob, pool>>

\* rg.stdout.on('data'): stdout += data.toString()
FetchStdoutData(c) ==
    /\ procs[c].state = "running"
    /\ procs[c].pending # <<>>
    /\ procs' = [procs EXCEPT ![c].stdout = @ \o Head(procs[c].pending),
                              ![c].pending = Tail(@)]
    /\ UNCHANGED <<clock, fsVer, cache, calls, lastStore, grep, glob, pool>>

\* rg.stderr.on('data'): stderr += data.toString()
FetchStderrData(c) ==
    /\ procs[c].state = "running"
    /\ procs[c].errPending # <<>>
    /\ procs' = [procs EXCEPT ![c].stderr = @ \o Head(procs[c].errPending),
                              ![c].errPending = Tail(@)]
    /\ UNCHANGED <<clock, fsVer, cache, calls, lastStore, grep, glob, pool>>

\* rg.on('error'): reject(err)
FetchError(c) ==
    /\ procs[c].state = "running"
    /\ procs[c].errorEvent
    /\ procs' = [procs EXCEPT ![c].errorEvent = FALSE]
    /\ IF calls[c].pc = "awaiting"
       THEN ResumeRejected(c, "spawn")
       ELSE UNCHANGED <<cache, calls, lastStore>>
    /\ GlobResume(c)
    /\ UNCHANGED <<clock, fsVer, grep, pool>>

\* a close handler whose outcome replaces the one an error event has fixed
FetchClose_SettlesAgain(c) ==
    /\ procs[c].state = "running"
    /\ procs[c].pending = <<>>
    /\ procs[c].errPending = <<>>
    /\ ~procs[c].errorEvent
    /\ procs' = [procs EXCEPT ![c].state = "closed"]
    /\ IF IsSuccessCode(procs[c].code)
       THEN ResumeResolved(c, ParseFiles(procs[c].stdout, calls[c].relativePath))
       ELSE ResumeRejected(c, "exit")
    /\ GlobResume(c)
    /\ UNCHANGED <<clock, fsVer, grep, pool>>

\* rg.on('close'): resolve(files) for code 0 or 1, reject otherwise; a promise
\* that an error event has settled stays as it is.  Node emits close once the
\* streams have ended, and after the error event of a failed spawn.  A glob
\* request that awaits the call goes on in the same turn.
FetchClose(c) ==
    /\ procs[c].state = "running"
    /\ procs[c].pending = <<>>
    /\ procs[c].errPending = <<>>
    /\ ~procs[c].errorEvent
    /\ procs' = [procs EXCEPT ![c].state = "closed"]
    /\ IF calls[c].pc # "awaiting"
       THEN UNCHANGED <<cache, calls, lastStore>>
       ELSE IF IsSuccessCode(procs[c].code)
       THEN ResumeResolved(c, ParseFiles(procs[c].stdout, calls[c].relativePath))
       ELSE ResumeRejected(c, "exit")
    /\ GlobResume(c)
    /\ UNCHANGED <<clock, fsVer, grep, pool>>

CacheNext ==
    \/ Tick
    \/ FsChange
    \/ \E c \in CallIds, r \in BOOLEAN, p \in RelativePaths : GetAllFiles(c, r, p)
    \/ \E c \in CallIds : FetchStdoutData(c)
    \/ \E c \in CallIds : FetchStderrData(c)
    \/ \E c \in CallIds : FetchError(c)
    \/ \E c \in CallIds : FetchClose(c)

(***************************************************************************)
(* GlobTool.execute: the actions.                                          *)
(***************************************************************************)
\* the files of an enumeration whose stat may fail: at most one of them
GoneChoices(files) ==
    {{}} \cup {{files[i]} : i \in 1..Len(files)}

\* execute up to its first await: validation, then the spawn of ripgrep
\* (direct mode) or the call of getAllFiles (cached mode)
GlobExecute(mode, params) ==
    /\ glob.pc = "idle"
    /\ LET validationError == ValidateGlobParams(params)
           searchDirAbsolute == GlobResolve(params.path)
           started == [glob EXCEPT !.mode = mode, !.params = params,
                                   !.searchDirAbsolute = searchDirAbsolute,
                                   !.ver = fsVer]
       IN  IF validationError # "null"
           THEN /\ glob' = [glob EXCEPT !.pc = "done", !.mode = mode,
                                !.params = params,
                                !.result = [NoGlobResult EXCEPT
                                              !.kind = "invalid",
                                              !.message = <<validationError>>]]
                /\ UNCHANGED cacheVars
           ELSE IF mode = "direct"
           THEN /\ \E kind \in ProcKinds :
                     glob' = [started EXCEPT
                        !.pc = "searching",
                        !.settled = "pending",
                        !.proc = SpawnGlob(
                            IF kind = "run" /\ ~GlobCompiles(params.pattern)
                            THEN "fail" ELSE kind,
                            Chunks(RgGlobFiles(params, TreeDir(searchDirAbsolute), fsVer)),
                            FALSE)]
                /\ UNCHANGED cacheVars
           ELSE \E c \in CallIds :
                /\ GetAllFilesBody(c, RespectGitIgnoreOrTrue(params), DOT)
                /\ GlobAfterGetAllFiles(
                        [started EXCEPT !.pc = "awaiting", !.call = c], calls'[c])
    /\ UNCHANGED <<grep, pool>>

\* the caller triggers the signal.  Only spawn was given the signal: a
\* running process is killed (an AbortError error event, a close without
\* exit code); getAllFiles takes no signal, and an enumeration it awaits
\* goes on.
GlobAbort ==
    /\ glob.pc \in {"awaiting", "searching", "filtering"}
    /\ ~glob.aborted
    /\ glob' = [glob EXCEPT
            !.aborted = TRUE,
            !.abortedAt = glob.pc,
            !.proc = IF glob.proc.state = "running" /\ glob.proc.kind # "nospawn"
                     THEN [@ EXCEPT !.pending = <<>>, !.errPending = <<>>,
                                    !.errorEvent = TRUE,
                                    !.errorCause = "The operation was aborted",
                                    !.code = NullCode]
                     ELSE @]
    /\ UNCHANGED <<cacheVars, grep, pool>>

\* rg.stdout.on('data'): stdout += data.toString()
GlobStdoutData ==
    /\ glob.proc.state = "running"
    /\ glob.proc.pending # <<>>
    /\ glob' = [glob EXCEPT !.proc.stdout = @ \o Head(glob.proc.pending),
                            !.proc.pending = Tail(@)]
    /\ UNCHANGED <<cacheVars, grep, pool>>

\* rg.stderr.on('data'): stderr += data.toString()
GlobStderrData ==
    /\ glob.proc.state = "running"
    /\ glob.proc.errPending # <<>>
    /\ glob' = [glob EXCEPT !.proc.stderr = @ \o Head(glob.proc.errPending),
                            !.proc.errPending = Tail(@)]
    /\ UNCHANGED <<cacheVars, grep, pool>>

\* rg.on('error'): reject(err)
GlobError ==
    /\ glob.proc.state \in {"running", "closed"}
    /\ glob.proc.errorEvent
    /\ glob' = IF glob.settled = "pending"
               THEN [glob EXCEPT !.proc.errorEvent = FALSE,
                                 !.errorSettled = TRUE,
                                 !.settled = "rejected",
                                 !.pc = "done",
                                 !.result = GlobFailure(glob.mode,
                                                <<glob.proc.errorCause>>)]
               ELSE [glob EXCEPT !.proc.errorEvent = FALSE]
    /\ UNCHANGED <<cacheVars, grep, pool>>

\* rg.on('close'): for code 0 or 1 the direct mode stats and sorts the
\* files and resolves with the result, the cached mode resolves and execute
\* goes on to make the result of stdout; any other code rejects.  Node emits
\* close once the streams have ended, and after the error event of a failed
\* spawn.
GlobClose ==
    /\ glob.proc.state = "running"
    /\ glob.proc.pending = <<>>
    /\ glob.proc.errPending = <<>>
    /\ glob.proc.errorEvent => glob.proc.kind # "nospawn"
    /\ IF glob.settled # "pending"
       THEN glob' = [glob EXCEPT !.proc.state = "closed"]
       ELSE IF ~GlobSuccessCode(glob.proc.code)
       THEN glob' = [glob EXCEPT
                !.proc.state = "closed",
                !.settled = "rejected",
                !.pc = "done",
                !.result = GlobFailure(glob.mode,
                              GlobExitError(glob.proc.code, glob.proc.stderr))]
       ELSE IF glob.mode = "direct"
       THEN \E gone \in GoneChoices(DirectFiles(glob.proc.stdout,
                                                glob.searchDirAbsolute)) :
                glob' = [glob EXCEPT
                    !.proc.state = "closed",
                    !.settled = "resolved",
                    !.pc = "done",
                    !.gone = gone,
                    !.result = FoundResult(DirectSortedPaths(glob.proc.stdout,
                                              glob.searchDirAbsolute, gone))]
       ELSE glob' = [glob EXCEPT
                !.proc.state = "closed",
                !.settled = "resolved",
                !.pc = "done",
                !.result = FoundResult(CachedPaths(glob.proc.stdout))]
    /\ UNCHANGED <<cacheVars, grep, pool>>

\* The glob request and the cache service it calls.  Before the request,
\* time passes, the tree changes and another caller may call getAllFiles;
\* the request is issued while no enumeration is in flight.
GlobNext ==
    \/ /\ \A c \in CallIds : calls[c].pc # "awaiting"
       /\ \E mode \in GlobModes, params \in GlobParams : GlobExecute(mode, params)
    \/ GlobAbort
    \/ GlobStdoutData
    \/ GlobStderrData
    \/ GlobError
    \/ GlobClose
    \/ glob.pc = "idle" /\ Tick
    \/ glob.pc = "idle" /\ FsChange
    \/ /\ glob.pc = "idle"
       /\ \E r \in BOOLEAN, p \in RelativePaths : GetAllFiles(1, r, p)
    \/ \E c \in CallIds : FetchStdoutData(c)
    \/ \E c \in CallIds : FetchStderrData(c)
    \/ \E c \in CallIds : FetchError(c)
    \/ \E c \in CallIds : FetchClose(c)

(***************************************************************************)
(* The crawler (packages/core/src/utils/filesearch/crawler.ts): crawl jobs *)
(* handed to a workerpool pool of one worker.  The pool keeps the tasks it *)
(* cannot hand to a worker in a queue and takes the next one whenever a    *)
(* task has ended.  The worker script (crawler.worker.js) returns the      *)
(* paths below the crawl directory, or fails.                              *)
(***************************************************************************)
MaxJobs == 3

JobIds == 1..MaxJobs

\* workerpool.pool(..., { maxWorkers: 1 })
MaxWorkers == 1

NoJob ==
    [pc |-> "idle", crawlDirectory |-> DOT, outcome |-> "none",
     reason |-> "none", results |-> <<>>]

PoolInit ==
    pool = [jobs |-> [j \in JobIds |-> NoJob],
            tasks |-> <<>>,
            running |-> {},
            started |-> <<>>,
            terminated |-> FALSE]

\* what the worker returns for a crawl directory: the paths of its files
CrawlWorker(crawlDirectory) ==
    LET lines == RgFiles(TRUE, crawlDirectory, LastVer)
    IN  [i \in 1..Len(lines) |-> Trim(lines[i])]

PoolDispatch_Unbounded(p) ==
    IF p.tasks # <<>>
    THEN [p EXCEPT !.tasks = Tail(@),
                   !.running = @ \cup {Head(p.tasks)},
                   !.started = Append(@, Head(p.tasks)),
                   !.jobs[Head(p.tasks)].pc = "running"]
    ELSE p

\* the pool takes the next task of the queue when a worker is free or can
\* still be created
PoolDispatch(p) ==
    IF p.tasks # <<>> /\ Cardinality(p.running) < MaxWorkers
    THEN [p EXCEPT !.tasks = Tail(@),
                   !.running = @ \cup {Head(p.tasks)},
                   !.started = Append(@, Head(p.tasks)),
                   !.jobs[Head(p.tasks)].pc = "running"]
    ELSE p

\* crawl(options) up to its await: pool.exec puts the task into the queue
\* and lets the pool take the next task
Crawl(j, crawlDirectory) ==
    /\ pool.jobs[j].pc = "idle"
    /\ \A i \in JobIds : i < j => pool.jobs[i].pc # "idle"
    /\ pool' = PoolDispatch(
                  [pool EXCEPT !.tasks = Append(@, j),
                               !.jobs[j].pc = "queued",
                               !.jobs[j].crawlDirectory = crawlDirectory])
    /\ UNCHANGED <<cacheVars, grep, glob>>

\* the worker answers: the promise of pool.exec settles, crawl returns the
\* results or throws the worker's error, and the pool takes the next task
WorkerDone(j, ok) ==
    /\ j \in pool.running
    /\ pool' = PoolDispatch(
                  [pool EXCEPT
                      !.running = @ \ {j},
                      !.jobs[j].pc = "done",
                      !.jobs[j].outcome = IF ok THEN "resolved" ELSE "rejected",
                      !.jobs[j].reason = IF ok THEN "results" ELSE "worker failure",
                      !.jobs[j].results =
                          IF ok THEN CrawlWorker(pool.jobs[j].crawlDirectory)
                          ELSE <<>>])
    /\ UNCHANGED <<cacheVars, grep, glob>>

\* terminateCrawlerWorker: pool.terminate() rejects the tasks of the queue
\* and lets a busy worker end its task before the worker is stopped
TerminateCrawlerWorker ==
    /\ ~pool.terminated
    /\ \E j \in JobIds : pool.jobs[j].pc # "idle"
    /\ pool' = [pool EXCEPT
            !.terminated = TRUE,
            !.tasks = <<>>,
            !.jobs = [j \in JobIds |->
                        IF pool.jobs[j].pc = "queued"
                        THEN [pool.jobs[j] EXCEPT !.pc = "done",
                                                  !.outcome = "rejected",
                                                  !.reason = "Pool terminated"]
                        ELSE pool.jobs[j]]]
    /\ UNCHANGED <<cacheVars, grep, glob>>

CrawlNext ==
    \/ \E j \in JobIds, d \in RelativePaths : Crawl(j, d)
    \/ \E j \in JobIds, ok \in BOOLEAN : WorkerDone(j, ok)
    \/ TerminateCrawlerWorker

(***************************************************************************)
(* The specifications: the cache service, the content search, the glob     *)
(* tool (with the cache service it calls) and the crawler are checked      *)
(* apart; each leaves the state of the others alone.                       *)
(***************************************************************************)
Init == CacheInit /\ GrepInit /\ GlobInit /\ PoolInit

CacheSpec == Init /\ [][CacheNext]_vars

GrepSpec == Init /\ [][GrepNext]_vars

GlobSpec == Init /\ [][GlobNext]_vars

CrawlSpec == Init /\ [][CrawlNext]_vars

\* no getAllFiles call and no glob request has been made
GlobUntouched ==
    /\ glob = GlobIdle
    /\ \A c \in CallIds : calls[c].pc = "idle"
    /\ clock = 0
    /\ fsVer = 0

\* The process-backed operations of both tools and of the cache service.
\* The two tools share no state, so a behaviour runs the execution of one
\* of them.
ToolNext ==
    \/ GlobUntouched /\ GrepNext
    \/ grep = GrepIdle /\ GlobNext

ToolSpec == Init /\ [][ToolNext]_vars

\* a worker ends the task it was given: the crawl of a finite tree
CrawlLiveSpec ==
    CrawlSpec /\ WF_vars(\E j \in JobIds, ok \in BOOLEAN : WorkerDone(j, ok))

(***************************************************************************)
(* Properties of FileCacheService.                                         *)
(***************************************************************************)
KeyOf(c) == CacheKey(calls[c].respectGitIgnore, calls[c].relativePath)

SamePair(a, b) ==
    /\ calls[a].respectGitIgnore = calls[b].respectGitIgnore
    /\ calls[a].relativePath = calls[b].relativePath

\* the call ran fetchFilesFromRipgrep
Spawned(c) == procs[c].state # "none"

Returned(c) == calls[c].pc = "done" /\ calls[c].outcome = "returned"

IsHit(c) == Returned(c) /\ ~Spawned(c)

\* the lists a complete enumeration for a pair can produce
ExpectedLists(respectGitIgnore, relativePath) ==
    {ParseFiles(Concat(RgFiles(respectGitIgnore, relativePath, v)), relativePath) :
        v \in 0..LastVer}

\* C1, as the claim states it: any two calls for one key issued less than
\* 10 seconds apart return the identical list, and the enumeration runs at
\* most once for the two (also when the second is issued while the first
\* still awaits its enumeration).
C1_AnyTwoCallsWithinTtlShare ==
    \A a, b \in CallIds :
        (/\ a # b
         /\ Returned(a) /\ Returned(b)
         /\ SamePair(a, b)
         /\ calls[a].now <= calls[b].now
         /\ calls[b].now - calls[a].now < CACHE_TTL_MS)
        => /\ calls[a].files = calls[b].files
           /\ ~(Spawned(a) /\ Spawned(b))

\* C1, amended: a call issued for a key whose latest executed store is that
\* of call a, less than 10 seconds after a was issued, returns the list a
\* returned and runs no enumeration.
C1_CallAfterStoreWithinTtlShares ==
    [][\A a, b \in CallIds :
        (/\ a # b
         /\ calls[b].pc = "idle" /\ calls'[b].pc # "idle"
         /\ calls'[b].respectGitIgnore = calls[a].respectGitIgnore
         /\ calls'[b].relativePath = calls[a].relativePath
         /\ <<KeyOf(a), a>> \in lastStore
         /\ calls'[b].now - calls[a].now < CACHE_TTL_MS)
        => /\ calls'[b].pc = "done"
           /\ calls'[b].outcome = "returned"
           /\ calls'[b].files = calls[a].files
           /\ procs'[b].state = "none"]_vars

\* a call issued strictly later than the store of another call, within the
\* TTL, was a hit on the list that call stored
C1_Witness ==
    \E a, b \in CallIds :
        /\ a # b /\ SamePair(a, b)
        /\ Returned(a) /\ Spawned(a) /\ <<KeyOf(a), a>> \in lastStore
        /\ IsHit(b)
        /\ calls[b].now > calls[a].now
        /\ calls[b].files = calls[a].files
        /\ Len(calls[b].files) > 0

C3_HitHasNoSideEffects ==
    [][\A c \in CallIds :
        (/\ calls[c].pc = "idle"
         /\ calls'[c].pc = "done")
        => /\ cache' = cache
           /\ lastStore' = lastStore
           /\ procs' = procs
           /\ \E e \in cache :
                /\ e.key = CacheKey(calls'[c].respectGitIgnore,
                                    calls'[c].relativePath)
                /\ calls'[c].files = e.files
                /\ calls'[c].now - e.timestamp < CACHE_TTL_MS
       ]_vars

\* a hit on an entry that is older than the call (age above 0): after the
\* hit the entry still carries its old timestamp and the files returned
C3_Witness ==
    \E c \in CallIds :
        /\ IsHit(c)
        /\ calls[c].entryAge > 0
        /\ \E e \in cache :
            /\ e.key = KeyOf(c)
            /\ e.timestamp = calls[c].now - calls[c].entryAge
            /\ e.files = calls[c].files

\* C4: the entry of a key is exactly the complete list of the call whose
\* store executed last, and there is exactly one entry for that key; no
\* entry is a mixture of two results or a partial result.
C4_LastWriteWins ==
    /\ \A e \in cache : \E h \in lastStore : h[1] = e.key
    /\ \A h \in lastStore :
        LET c == h[2] IN
        /\ h[1] = KeyOf(c)
        /\ Returned(c) /\ Spawned(c)
        /\ Cardinality({e \in cache : e.key = h[1]}) = 1
        /\ \A e \in cache : e.key = h[1] =>
            /\ e.files = calls[c].files
            /\ e.timestamp = calls[c].now
            /\ e.files \in ExpectedLists(calls[c].respectGitIgnore,
                                         calls[c].relativePath)

\* two overlapping misses for one key enumerated different lists; the cache
\* holds the list of the one that stored last
C4_Witness ==
    \E a, b \in CallIds :
        /\ a # b /\ SamePair(a, b)
        /\ Returned(a) /\ Spawned(a)
        /\ Returned(b) /\ Spawned(b)
        /\ calls[a].now = calls[b].now
        /\ calls[a].files # calls[b].files
        /\ <<KeyOf(a), a>> \in lastStore
        /\ \E e \in cache : e.key = KeyOf(a) /\ e.files = calls[a].files

\* C5: distinct (respectGitIgnore, relativePath) pairs have distinct keys
\* and never share an entry (every list a call returns was enumerated for
\* its own pair), a key has at most one entry, and a store changes the
\* entry of its own key only.
C5_KeysAreUnique ==
    /\ [](/\ \A r1, r2 \in BOOLEAN, p1, p2 \in RelativePaths :
                CacheKey(r1, p1) = CacheKey(r2, p2) => (r1 = r2 /\ p1 = p2)
          /\ \A e1, e2 \in cache : e1.key = e2.key => e1 = e2
          /\ \A c \in CallIds : Returned(c) =>
                calls[c].files \in ExpectedLists(calls[c].respectGitIgnore,
                                                 calls[c].relativePath))
    /\ [][\A e \in (cache \ cache') \cup (cache' \ cache) :
            \E c \in CallIds :
                /\ calls[c].pc = "awaiting"
                /\ calls'[c].outcome = "returned"
                /\ KeyOf(c) = e.key]_vars

\* the cache holds the entries of two keys, stored at different times with
\* different lists
C5_Witness ==
    \E e1, e2 \in cache :
        /\ e1.key # e2.key
        /\ e1.files # e2.files
        /\ e1.timestamp < e2.timestamp

(***************************************************************************)
(* Properties of GrepTool.                                                 *)
(***************************************************************************)
\* the close handler parsed the output: performGrepSearch resolved on code 0
Parsed == grep.settled = "resolved" /\ grep.proc.code = 0

\* the fragments of a match event's text up to the last non-empty one
Fragments(text) ==
    LET all == SplitLines(text)
        filled == {i \in 1..Len(all) : Len(all[i]) > 0}
        last == IF filled = {} THEN 0
                ELSE CHOOSE i \in filled : \A j \in filled : j <= i
    IN  SubSeq(all, 1, last)

\* the matches of the output when fragment i of an event that starts at
\* line s is given line s + i
RECURSIVE TrueLineMatches(_, _)
TrueLineMatches(absolutePath, lines) ==
    IF lines = <<>> THEN <<>>
    ELSE LET event == Head(lines)
             frags == Fragments(event.text)
         IN  (IF event.type = "match"
              THEN [i \in 1..Len(frags) |->
                      [filePath |-> PathRelative(absolutePath, event.path),
                       lineNumber |-> event.line_number + (i - 1),
                       line |-> Trim(frags[i])]]
              ELSE <<>>)
             \o TrueLineMatches(absolutePath, Tail(lines))

\* C6: of the fragments of a match event's text only the empty trailing
\* ones are discarded, and fragment i of an event that starts at line s
\* becomes a match with line number s + i: a non-empty line behind an
\* interior empty line keeps its true line number.
C6_FragmentsKeepTrueLineNumbers ==
    Parsed =>
        \A m \in {TrueLineMatches(grep.searchDirAbs, grep.proc.sent)[i] :
                    i \in 1..Len(TrueLineMatches(grep.searchDirAbs, grep.proc.sent))} :
            Len(m.line) > 0 =>
                \E i \in 1..Len(grep.matches) : grep.matches[i] = m

\* the matches of a file, in the order the search found them
RECURSIVE MatchesOfFile(_, _)
MatchesOfFile(matches, file) ==
    IF matches = <<>> THEN <<>>
    ELSE (IF Head(matches).filePath = file THEN <<Head(matches)>> ELSE <<>>)
         \o MatchesOfFile(Tail(matches), file)

\* C7: whatever the order of the match events, the report lists each file
\* exactly once with all of its matches, and the line numbers of a group
\* are strictly ascending.
C7_GroupedAndStrictlySorted ==
    (Parsed /\ Len(grep.matches) > 0) =>
        /\ grep.result.kind = "report"
        /\ LET groups == grep.result.groups
               files == {grep.matches[i].filePath : i \in 1..Len(grep.matches)}
           IN  /\ \A f \in files :
                    Cardinality({g \in 1..Len(groups) : groups[g].file = f}) = 1
               /\ \A g \in 1..Len(groups) :
                    LET ms == groups[g].matches IN
                    /\ groups[g].file \in files
                    /\ Len(ms) = Len(MatchesOfFile(grep.matches, groups[g].file))
                    /\ \A i \in 1..Len(ms) :
                          \E j \in 1..Len(grep.matches) : grep.matches[j] = ms[i]
                    /\ \A i \in 1..(Len(ms) - 1) :
                          ms[i].lineNumber < ms[i + 1].lineNumber

\* String.prototype.includes, on sequences
IsInfix(sub, s) ==
    \E i \in 0..(Len(s) - Len(sub)) : SubSeq(s, i + 1, i + Len(sub)) = sub

\* what the exit code of a closed process entails, for C8
ExitCodeSemantics ==
    LET code == grep.proc.code
        stderrData == Concat(grep.proc.stderrChunks)
    IN  /\ code = 1 =>
            /\ grep.settled = "resolved"
            /\ grep.matches = <<>>
            /\ grep.result.kind = "no matches"
        /\ code = 0 =>
            /\ grep.settled = "resolved"
            /\ grep.matches = ParseOutput(grep.searchDirAbs, grep.proc.sent)
            /\ grep.result.kind # "no matches" <=> Len(grep.matches) > 0
        /\ code \notin {0, 1} =>
            /\ grep.settled = "rejected"
            /\ grep.result.kind = "error"
            /\ IsInfix(stderrData, grep.result.message)
            /\ grep.matches = <<>>
            /\ grep.result.groups = <<>>

\* C8, as the claim states it: a close with code 1 yields an empty report
\* and no error, a close with code 0 the parsed matches, a close with any
\* other code or with no code an error whose message contains the stderr
\* text captured, and no matches.
C8_ExitCodeDecides ==
    grep.proc.state = "closed" => ExitCodeSemantics

\* C8, amended: the same, for a close event that no error event (a failed
\* spawn, an abort) has preceded.
C8_ExitCodeDecidesUnlessErrorFirst ==
    (grep.proc.state = "closed" /\ ~grep.errorSettled) => ExitCodeSemantics

\* a process that wrote a diagnostic and ended with another code than 0 or 1
C8_Witness ==
    /\ grep.proc.state = "closed"
    /\ ~grep.errorSettled
    /\ grep.proc.code \notin {0, 1}
    /\ Concat(grep.proc.stderrChunks) = DIAG
    /\ grep.result.kind = "error"

(* the parameters C9 is about *)
InvalidPatterns == {<<"(", "f">>}
NoDirectoryPaths == {<<FileF>>, <<Missing>>}

\* C9: with an invalid pattern, or a path that is missing or no directory,
\* execute returns a validation error and never spawns a process.
C9_ValidationFailsFast ==
    (/\ grep.pc # "idle"
     /\ \/ grep.params.pattern \in InvalidPatterns
        \/ grep.params.path \in NoDirectoryPaths)
    => /\ grep.pc = "done"
       /\ grep.result.kind = "invalid"
       /\ grep.proc.state = "none"
       /\ grep.settled = "none"

\* a well-formed request for a missing directory was refused
C9_Witness ==
    /\ grep.pc = "done"
    /\ grep.params.schemaOk
    /\ grep.params.pattern \notin InvalidPatterns
    /\ grep.params.path = <<Missing>>
    /\ grep.result.kind = "invalid"
    /\ grep.proc.state = "none"

\* C10: once the signal was triggered while the process was in flight, the
\* process is killed, the search ends in an error result and never in a
\* report or in "no matches", whichever of error and close comes first.
C10_AbortNeverSucceeds ==
    grep.abortedInFlight =>
        /\ grep.proc.code = NullCode
        /\ grep.proc.pending = <<>>
        /\ grep.result.kind \notin {"report", "no matches"}
        /\ grep.matches = <<>>
        /\ grep.pc = "done" => grep.result.kind = "error"
        /\ grep.pc # "done" => grep.proc.state = "running"

\* an abort that came after output had arrived: the close event came first,
\* and no partial report was made of that output
C10_Witness ==
    /\ grep.abortedInFlight
    /\ grep.pc = "done"
    /\ grep.proc.state = "closed"
    /\ ~grep.errorSettled
    /\ \E i \in 1..Len(grep.proc.stdoutChunks) : grep.proc.stdoutChunks[i].type = "match"
    /\ grep.result.kind = "error"

\* the directory is the root directory or lies below it
IsRootOrDescendant(segs) ==
    /\ Len(segs) >= Len(RootDirectory)
    /\ SubSeq(segs, 1, Len(RootDirectory)) = RootDirectory

\* C14: the external process only ever runs with a working directory that
\* is the root directory or a descendant of it; a path that resolves outside
\* the root (a sibling directory whose name starts with the root's name
\* included) is rejected with a validation error.
C14_ProcessRunsInsideRoot ==
    /\ grep.proc.state # "none" => IsRootOrDescendant(grep.searchDirAbs)
    /\ (grep.pc # "idle"
            /\ ~IsRootOrDescendant(PathResolve(RootDirectory, grep.params.path)))
        => grep.result.kind = "invalid"

\* the lines of an output that are well-formed match events
RECURSIVE WellFormedEvents(_)
WellFormedEvents(lines) ==
    IF lines = <<>> THEN <<>>
    ELSE (IF Head(lines).type = "match" /\ Head(lines).line_number \in StartLines
          THEN <<Head(lines)>> ELSE <<>>)
         \o WellFormedEvents(Tail(lines))

\* C13: a line of the output that does not parse, or a match event that
\* lacks an expected field, is skipped alone: the matches the search
\* collects are exactly those of the well-formed match events before and
\* after it, and the search does not fail.
C13_MalformedLinesAreSkippedAlone ==
    (grep.proc.state = "closed" /\ grep.proc.kind = "run" /\ ~grep.aborted)
    => /\ grep.settled = "resolved"
       /\ grep.matches =
            ParseOutput(grep.searchDirAbs, WellFormedEvents(grep.proc.sent))

\* the results execute makes of a genuine failure: ripgrep could not be
\* started, or it exited with an error code
GenuineFailureResults ==
    {ErrorResult(StartError("spawn ENOENT"))}
        \cup {ErrorResult(ExitError(code, stderrData)) :
                code \in {2, NullCode}, stderrData \in {<<>>, DIAG}}

\* C11: the result of a search that was aborted through the signal differs
\* in kind from the result of a process that could not be started or that
\* exited with an error code.
C11_CancellationIsDistinguishable ==
    (grep.abortedInFlight /\ grep.pc = "done")
    => \A failure \in GenuineFailureResults : grep.result.kind # failure.kind

(***************************************************************************)
(* Properties of GlobTool.                                                 *)
(***************************************************************************)
\* the files ripgrep enumerated for the direct mode, as absolute paths
Enumerated == DirectFiles(Concat(glob.proc.sent), glob.searchDirAbsolute)

\* the modification time the sort saw: 0 for a file whose stat failed
SeenMtime(file) == IF file \in glob.gone THEN 0 ELSE MtimeMs(file)

\* C15: the paths the direct mode returns are a permutation of the
\* enumerated matches, sorted by modification time descending, where a file
\* whose stat fails counts as modification time 0 and so comes behind every
\* file with a positive modification time.
C15_DirectResultsNewestFirst ==
    (glob.mode = "direct" /\ glob.result.kind = "found")
    => LET paths == glob.result.paths
       IN  /\ Len(paths) = Len(Enumerated)
           /\ {paths[i] : i \in 1..Len(paths)}
                = {Enumerated[i] : i \in 1..Len(Enumerated)}
           /\ \A i \in 1..(Len(paths) - 1) :
                SeenMtime(paths[i]) >= SeenMtime(paths[i + 1])
           /\ \A i, j \in 1..Len(paths) :
                (paths[i] \in glob.gone /\ paths[j] \notin glob.gone) => j < i

\* three files were enumerated, the stat of one of them failed, and the
\* order returned is not the order of the enumeration
C15_Witness ==
    /\ glob.mode = "direct"
    /\ glob.result.kind = "found"
    /\ Len(glob.result.paths) = 3
    /\ glob.gone # {}
    /\ glob.result.paths # Enumerated
    /\ glob.result.paths[3] \in glob.gone

\* the list getAllFiles returned to the glob request
AllFiles == calls[glob.call].files

\* the elements of a list that the compiled pattern of the request matches,
\* in the order of the list
RECURSIVE MatchingElements(_)
MatchingElements(files) ==
    IF files = <<>> THEN <<>>
    ELSE (IF RegexMatches(GlobToRegexp(GlobPattern(glob.params), ""),
                          Head(files), ~glob.params.case_sensitive)
          THEN <<Head(files)>> ELSE <<>>)
         \o MatchingElements(Tail(files))

\* C16: the paths the cached mode returns are exactly the elements of the
\* list of getAllFiles(respect_git_ignore, by default true) that match the
\* compiled pattern, each made absolute under the root, in the order they
\* have in that list.
C16_CachedResultsKeepListOrder ==
    (glob.mode = "cached" /\ glob.result.kind = "found")
    => /\ Returned(glob.call)
       /\ calls[glob.call].respectGitIgnore = (glob.params.respect_git_ignore # "false")
       /\ calls[glob.call].relativePath = DOT
       /\ LET expected == MatchingElements(AllFiles)
          IN  glob.result.paths =
                [i \in 1..Len(expected) |->
                    PathString(RootDirectory) \o <<"/">> \o expected[i]]

\* a list of three files served from the cache, of which the pattern
\* matches two
C16_Witness ==
    /\ glob.mode = "cached"
    /\ glob.result.kind = "found"
    /\ IsHit(glob.call)
    /\ Len(AllFiles) = 3
    /\ Len(glob.result.paths) = 2

\* C17: a process that exits with code 1 (nothing matched) is no error: both
\* glob modes complete with an empty sequence ("No files found"), and the
\* enumeration of the cache service returns the empty list and stores it as
\* the entry of its key.
C17_NoMatchIsNoError ==
    /\ (glob.proc.state = "closed" /\ glob.proc.code = 1)
        => /\ glob.pc = "done"
           /\ glob.settled = "resolved"
           /\ glob.result.kind = "found"
           /\ glob.result.paths = <<>>
           /\ glob.result.returnDisplay = "No files found"
    /\ \A c \in CallIds :
        (procs[c].state = "closed" /\ procs[c].code = 1)
        => /\ Returned(c)
           /\ calls[c].files = <<>>
           /\ \E h \in lastStore : h[1] = KeyOf(c)
           /\ <<KeyOf(c), c>> \in lastStore
                => /\ MapHas(cache, KeyOf(c))
                   /\ MapGet(cache, KeyOf(c)).files = <<>>
                   /\ MapGet(cache, KeyOf(c)).timestamp = calls[c].now

\* an enumeration that found no file stored the empty list, and a glob
\* request whose filter matched nothing ended with "No files found"
C17_Witness ==
    /\ \E c \in CallIds :
        /\ procs[c].state = "closed"
        /\ procs[c].code = 1
        /\ <<KeyOf(c), c>> \in lastStore
        /\ MapGet(cache, KeyOf(c)).files = <<>>
    /\ glob.proc.state = "closed"
    /\ glob.proc.code = 1
    /\ glob.result.returnDisplay = "No files found"

\* C18: a glob pattern that does not compile is reported before any
\* filesystem access: no enumeration or filter process is spawned for the
\* request, and the file-list cache is not consulted.
C18_PatternErrorPrecedesFilesystem ==
    (glob.pc # "idle" /\ ~GlobCompiles(glob.params.pattern))
    => /\ glob.proc.state = "none"
       /\ glob.call = 0
       /\ glob.pc = "done"

\* the set of paths the direct mode yields for a request on a version of
\* the tree
DirectSet(params, ver) ==
    LET dir == GlobResolve(params.path)
        files == DirectFiles(Concat(RgGlobFiles(params, TreeDir(dir), ver)), dir)
    IN  {files[i] : i \in 1..Len(files)}

\* the set of paths the cached mode yields for a request when the list is
\* enumerated on a version of the tree
CachedSet(params, ver) ==
    LET allFiles == ParseFiles(
                        Concat(RgFiles(RespectGitIgnoreOrTrue(params), DOT, ver)), DOT)
        paths == CachedPaths(Concat(
                    RgFilter(GlobToRegexp(GlobPattern(params), ""), allFiles,
                             ~params.case_sensitive)))
    IN  {paths[i] : i \in 1..Len(paths)}

\* C19: for the same tree, pattern, case-sensitivity flag, respect_git_ignore
\* value and anchor directory (given relative to the root or absolutely),
\* the direct mode and the cached mode return the same set of absolute
\* paths.
C19_ModesAgreeOnResultSet ==
    (/\ glob.result.kind = "found"
     /\ glob.mode = "cached" => ~IsHit(glob.call))
    => {glob.result.paths[i] : i \in 1..Len(glob.result.paths)}
         = IF glob.mode = "direct" THEN CachedSet(glob.params, glob.ver)
           ELSE DirectSet(glob.params, glob.ver)

\* C12: when the signal is triggered while the file-list enumeration of a
\* request is in flight, the enumeration is abandoned: its result is not
\* stored in the cache and not returned, and the request ends in a failure.
C12_AbortAbandonsEnumeration ==
    glob.abortedAt = "awaiting"
    => /\ <<KeyOf(glob.call), glob.call>> \notin lastStore
       /\ ~Returned(glob.call)
       /\ glob.pc = "done" => glob.result.kind \in {"error", "rejected"}

(***************************************************************************)
(* Properties of the crawler.                                              *)
(***************************************************************************)
\* a job that crawl() has handed to the pool and that has not ended
Pending(j) == pool.jobs[j].pc \in {"queued", "running"}

\* the job ended as the worker ended it: with its results or with the
\* worker's failure
EndedByWorker(j) ==
    /\ pool.jobs[j].pc = "done"
    /\ \/ /\ pool.jobs[j].outcome = "resolved"
          /\ pool.jobs[j].results = CrawlWorker(pool.jobs[j].crawlDirectory)
       \/ /\ pool.jobs[j].outcome = "rejected"
          /\ pool.jobs[j].reason = "worker failure"

\* C20: at most one crawl job executes at any time; a crawl() call made
\* while a job is running is queued (it neither fails nor starts), jobs are
\* started one after another in the order of their submission, and, as long
\* as the pool is not terminated, every submitted job ends with its result
\* or with its worker-side failure.
C20_PoolOfOneSerializesJobs ==
    /\ [](Cardinality(pool.running) <= 1)
    /\ [](\A i, k \in 1..Len(pool.started) : i < k => pool.started[i] < pool.started[k])
    /\ [](~pool.terminated =>
            \A j \in JobIds : pool.jobs[j].pc = "done" => EndedByWorker(j))
    /\ [][\A j \in JobIds :
            (pool.jobs[j].pc = "idle" /\ pool'.jobs[j].pc # "idle")
            => IF pool.running # {}
               THEN /\ pool'.jobs[j].pc = "queued"
                    /\ pool'.running = pool.running
                    /\ pool'.tasks = Append(pool.tasks, j)
               ELSE pool'.jobs[j].pc \in {"queued", "running"}]_vars
    /\ \A j \in JobIds :
            Pending(j) ~> (pool.terminated \/ EndedByWorker(j))

\* one job has ended with its results, the next one is running, a third
\* one waits in the queue
C20_Witness ==
    /\ ~pool.terminated
    /\ \E a, b, c \in JobIds :
        /\ pool.jobs[a].pc = "done" /\ pool.jobs[a].outcome = "resolved"
        /\ pool.running = {b}
        /\ pool.tasks = <<c>>

(***************************************************************************)
(* Properties of FileCacheService: the age of what it stores and returns.  *)
(***************************************************************************)
\* C22: the entry stored on a miss carries the instant of its store, so a
\* call issued for the key less than 10 seconds after the miss has
\* completed, with no other store in between, is a hit and runs no
\* enumeration, however long the enumeration of the miss took.
C22_EntryOfAMissIsFresh ==
    [][\A a, b \in CallIds :
        (/\ a # b
         /\ calls[b].pc = "idle" /\ calls'[b].pc # "idle"
         /\ Returned(a) /\ Spawned(a)
         /\ <<KeyOf(a), a>> \in lastStore
         /\ calls'[b].respectGitIgnore = calls[a].respectGitIgnore
         /\ calls'[b].relativePath = calls[a].relativePath
         /\ calls'[b].now - calls[a].doneAt < CACHE_TTL_MS)
        => /\ calls'[b].pc = "done"
           /\ calls'[b].outcome = "returned"
           /\ procs'[b].state = "none"]_vars

\* C25: under any interleaving of overlapping misses for one key, each store
\* replaces the entry of the key with one whose timestamp is greater than or
\* equal to the timestamp of the entry it replaces, and a list enumerated
\* earlier never overwrites a list enumerated later.
C25_EntriesNeverGoBackwards ==
    [][\A e \in cache, f \in cache' :
        (f.key = e.key /\ f # e)
        => /\ f.timestamp >= e.timestamp
           /\ \A h \in lastStore, k \in lastStore' :
                (h[1] = e.key /\ k[1] = e.key)
                => calls[k[2]].enumeratedAt >= calls[h[2]].enumeratedAt]_vars

\* C24: the process that listed the files of a cache entry was spawned no
\* earlier than the entry's timestamp; hence every list getAllFiles returns,
\* on a hit or on a miss, was listed by a process spawned less than 10
\* seconds before, or after, the instant the returning call was issued.
C24_ReturnedListsAreYoungerThanTtl ==
    /\ \A e \in cache : \A h \in lastStore :
            h[1] = e.key => calls[h[2]].enumeratedAt >= e.timestamp
    /\ \A c \in CallIds :
            Returned(c)
            => /\ calls[c].enumeratedAt # NoTime
               /\ calls[c].enumeratedAt > calls[c].now - CACHE_TTL_MS

\* a call was served, 5 seconds after the miss that stored it was issued, a
\* list whose enumeration had itself taken time
C24_Witness ==
    \E a, b \in CallIds :
        /\ a # b /\ SamePair(a, b)
        /\ Returned(a) /\ Spawned(a) /\ <<KeyOf(a), a>> \in lastStore
        /\ calls[a].doneAt > calls[a].now
        /\ IsHit(b)
        /\ calls[b].now - calls[b].enumeratedAt = TimeStep
        /\ Len(calls[b].files) > 0

\* the call threw what its enumeration failed with
Threw(c) == calls[c].pc = "done" /\ calls[c].outcome = "threw"

\* the entry of the key is as call a found it when it was issued
EntryAsFoundBy(a, key) ==
    IF calls[a].entryAge = NoAge
    THEN ~MapHas(cache, key)
    ELSE /\ MapHas(cache, key)
         /\ MapGet(cache, key).timestamp = calls[a].now - calls[a].entryAge

C26_GlobExecuteNeverRejects ==
    glob.pc = "done"
    => /\ glob.result.kind # "rejected"
       /\ glob.result.kind = "error"
            => Head(glob.result.message) = "Error during glob search operation: "

\* C21: in content search, glob and cache enumeration a stdout chunk is only
\* accumulated (the step settles nothing and produces no result); a success
\* result exists only once the process has closed, and it is computed from
\* all that the process wrote to its stdout.
C21_OutputExposedOnlyAtTermination ==
    /\ [](grep.result.kind \in {"report", "no matches"}
            => /\ grep.proc.state = "closed"
               /\ grep.proc.stdoutChunks = grep.proc.sent
               /\ grep.result =
                    ResultOf(grep.searchDirAbs,
                             IF grep.proc.code = 0
                             THEN ParseOutput(grep.searchDirAbs, grep.proc.sent)
                             ELSE <<>>))
    /\ [](glob.result.kind = "found"
            => /\ glob.proc.state = "closed"
               /\ glob.proc.stdout = Concat(glob.proc.sent)
               /\ glob.result =
                    FoundResult(IF glob.mode = "direct"
                                THEN DirectSortedPaths(Concat(glob.proc.sent),
                                        glob.searchDirAbsolute, glob.gone)
                                ELSE CachedPaths(Concat(glob.proc.sent))))
    /\ [](\A c \in CallIds :
            (Returned(c) /\ Spawned(c))
            => /\ procs[c].state = "closed"
               /\ procs[c].stdout = Concat(procs[c].sent)
               /\ calls[c].files =
                    ParseFiles(Concat(procs[c].sent), calls[c].relativePath))
    /\ [][/\ grep'.proc.stdoutChunks # grep.proc.stdoutChunks
            => /\ grep'.pc = grep.pc /\ grep'.settled = grep.settled
               /\ grep'.result = grep.result /\ grep'.matches = grep.matches
          /\ glob'.proc.stdout # glob.proc.stdout
            => /\ glob'.pc = glob.pc /\ glob'.settled = glob.settled
               /\ glob'.result = glob.result
          /\ \A c \in CallIds :
                procs'[c].stdout # procs[c].stdout
                => calls' = calls /\ cache' = cache /\ glob' = glob]_vars

\* a cached glob request has its result; both the enumeration it awaited
\* and its filter process delivered their output in two chunks
C21_Witness ==
    /\ glob.pc = "done" /\ glob.mode = "cached"
    /\ glob.result.kind = "found" /\ Len(glob.result.paths) > 1
    /\ Len(glob.proc.sent) = 2
    /\ Len(procs[glob.call].sent) = 2

\* the promise of the operation has been resolved or rejected
Settled(op) == op.settled \in {"resolved", "rejected"}

\* the step delivers the error event, or the close event, of the process
Delivers(before, after) ==
    \/ before.errorEvent /\ ~after.errorEvent
    \/ before.state = "running" /\ after.state = "closed"

\* C27: performGrepSearch, fetchFilesFromRipgrep and the glob process wait
\* settle exactly once: the step that delivers the first error or close
\* event of the process settles the operation, with the outcome of that
\* event, and no later event (data, error or close) changes the outcome.
C27_OperationsSettleExactlyOnce ==
    [][/\ Settled(grep)
            => /\ grep'.settled = grep.settled /\ grep'.result = grep.result
               /\ grep'.matches = grep.matches /\ grep'.pc = grep.pc
       /\ Settled(glob)
            => /\ glob'.settled = glob.settled /\ glob'.result = glob.result
               /\ glob'.gone = glob.gone /\ glob'.pc = glob.pc
       /\ \A c \in CallIds :
            calls[c].pc = "done" => calls'[c] = calls[c]
       /\ (grep.settled = "pending" /\ Delivers(grep.proc, grep'.proc))
            => /\ Settled(grep')
               /\ grep'.settled = "rejected"
                    <=> (grep.proc.errorEvent \/ CloseOutcome(grep.proc.code) = "reject")
       /\ (glob.settled = "pending" /\ Delivers(glob.proc, glob'.proc))
            => /\ Settled(glob')
               /\ glob'.settled = "rejected"
                    <=> (glob.proc.errorEvent \/ ~GlobSuccessCode(glob.proc.code))
       /\ \A c \in CallIds :
            (calls[c].pc = "awaiting" /\ Delivers(procs[c], procs'[c]))
            => /\ calls'[c].pc = "done"
               /\ calls'[c].outcome = "threw"
                    <=> (procs[c].errorEvent \/ ~IsSuccessCode(procs[c].code))]_vars

\* an enumeration ended, and the filter process of the cached glob request
\* that awaited it could not be spawned: its error event settled the request
\* and its close event followed
C27_Witness ==
    /\ glob.mode = "cached" /\ glob.pc = "done"
    /\ glob.errorSettled /\ glob.settled = "rejected"
    /\ glob.proc.kind = "nospawn"
    /\ glob.proc.state = "closed" /\ ~glob.proc.errorEvent
    /\ glob.result = GlobErrorResult(<<"spawn ENOENT">>)
    /\ procs[glob.call].state = "closed" /\ Returned(glob.call)

====
